---------------------------- MODULE Spec2Model ----------------------------
(***************************************************************************)
(* Online query allocation: the advertiser registry (advertiser.py), the   *)
(* pessimistic, optimistic and balanced allocators (pessimistic.py,        *)
(* optimistic.py, balanced.py) and the driver that runs them               *)
(* (experiment.py, input_generator.py).                                    *)
(*                                                                         *)
(* Budgets, bids and amounts are Python numbers, modelled as naturals.     *)
(* Python lists of Advertiser objects are references: the authoritative    *)
(* list Advertiser.advertisers is one object, every copy.deepcopy makes a  *)
(* new list object held in the heap `copies`, and the allocators keep the  *)
(* reference they were given at construction.                              *)
(***************************************************************************)
EXTENDS Integers, Sequences, FiniteSets

\* ------------------------------------------------------------ bounds
MaxBudget == 2          \* initial_budget of an advertiser
MaxBid == 2             \* bid of an advertiser for a keyword
MaxDemand == 2          \* predicted demand of a keyword
MaxAlpha == 2           \* alpha of the balanced allocator
MaxQueries == 3         \* length of a query stream that is run twice
MaxBalancedBudget == 4  \* initial_budget where the balanced allocator runs alone

\* The sizes the registry may have, which are also the values of
\* InputGenerator.n_advertisers, and the values of n_keywords.
AdvertiserCounts == {1, 2}
KeywordCounts == {1}
RoundingKeywordCounts == {2}

\* The keywords k1..kn, and the queries that may arrive: the keywords and one
\* keyword that nobody bids on and that no prediction holds.
Keywords(nk) == 1..nk
UnknownKeyword(nk) == nk + 1
Queries(nk) == Keywords(nk) \cup {UnknownKeyword(nk)}

\* A keyword missing from an advertiser's bid dictionary.
Missing == -1
BidValues == {Missing} \cup (0..MaxBid)

\* The LP solution is a vector of non-negative reals; the model keeps them in
\* units of 1/SolDen.
SolDen == 2

\* The largest entry, in units of 1/SolDen, of the solutions handed to the
\* rounding step when they are arbitrary.
MaxSolution == 2

VARIABLES
    n_advertisers,          \* InputGenerator.n_advertisers
    n_keywords,             \* InputGenerator.n_keywords
    advertisers,            \* Advertiser.advertisers, the authoritative list
    copies,                 \* heap of the deep-copied lists, by reference 1, 2
    advertiser_list_copy,   \* Advertiser._advertiser_list_copy: 0 (None) or a reference
    bids,                   \* the bid table of the current inputs
    kind,                   \* the allocator the driver holds, or "snapshot": a copy_list
    alpha,                  \* its alpha
    adv_ref,                \* its self.advertisers (the copy_list): 0 (the authoritative
                            \* list) or a reference
    offline_allocations,    \* OptimisticAlgorithm.offline_allocations
    remaining_queries,      \* OptimisticAlgorithm.remaining_queries
    allocations,            \* BalancedAlgorithm.allocations, <<o, p>>
    ret,                    \* what the last call returned
    op,                     \* the last call made (success: what linprog reported in it)
    only_queries,           \* since the allocator was built, only allocate_query was called
    runs,                   \* per pass over a query stream, what each query returned
    error                   \* the exception that ended the run, if any

vars == <<n_advertisers, n_keywords, advertisers, copies, advertiser_list_copy, bids, kind,
          alpha, adv_ref, offline_allocations, remaining_queries, allocations,
          ret, op, only_queries, runs, error>>

registry == <<n_advertisers, n_keywords, advertisers, bids>>
allocator == <<kind, alpha, adv_ref, offline_allocations, remaining_queries, allocations>>

\* ------------------------------------------------------------ Advertiser
\* Advertiser(name, initial_budget).  float64 tells whether the budget is a
\* numpy.float64, as the budgets InputGenerator draws are, or a Python number:
\* the two differ in what a division by zero does.
Advertiser(name, initial_budget, float64) ==
    [name |-> name, initial_budget |-> initial_budget, spent_budget |-> 0,
     float64 |-> float64]

remaining_budget(a) == a.initial_budget - a.spent_budget

\* The fraction spent as <<numerator, denominator>>.
budget_fraction(a) ==
    IF a.initial_budget = 0 THEN <<1, 1>> ELSE <<a.spent_budget, a.initial_budget>>

\* deduct_budget: the advertiser after the call, and whether it raised.
\* (deduct_budget_unguarded: without the comparison with the remaining budget.)
deduct_budget_unguarded(a, amount) ==
    [raised |-> FALSE, adv |-> [a EXCEPT !.spent_budget = @ + amount]]

\* (deduct_budget_charges_first: the amount is added before the comparison.)
deduct_budget_charges_first(a, amount) ==
    [raised |-> amount > remaining_budget(a),
     adv |-> [a EXCEPT !.spent_budget = @ + amount]]

deduct_budget(a, amount) ==
    IF amount > remaining_budget(a)
    THEN [raised |-> TRUE, adv |-> a]
    ELSE [raised |-> FALSE, adv |-> [a EXCEPT !.spent_budget = @ + amount]]

\* copy.deepcopy of a list of advertisers: a new list of equal records.
deepcopy(list) == [i \in 1..Len(list) |-> list[i]]

\* The list a reference names, and the lists after the list a reference names
\* is changed in place.
Deref(ref, auth, heap) == IF ref = 0 THEN auth ELSE heap[ref]
Store(ref, list, auth, heap) ==
    IF ref = 0 THEN [advertisers |-> list, copies |-> heap]
               ELSE [advertisers |-> auth, copies |-> [heap EXCEPT ![ref] = list]]

\* A reference for a new list object: one the allocator does not hold.
FreshRef(held) == IF held = 1 THEN 2 ELSE 1

\* The heap without the lists that neither the cache nor the allocator holds.
Collect(heap, cache, held) ==
    [r \in 1..2 |-> IF r = cache \/ r = held THEN heap[r] ELSE <<>>]

\* ------------------------------------------------------------ utils
\* phi_alpha(f, alpha) = 1 - exp(alpha * (f - 1)), in units of 1/Scale.
\* exp(-p/q) is summed from its series, term by term, in the same units.
Scale == 1000000
NumTerms == 30

RECURSIVE ExpSeries(_, _, _, _, _)
ExpSeries(p, q, n, term, sum) ==
    IF n > NumTerms \/ term = 0 THEN sum
    ELSE LET next == (term * p) \div (q * n)
         IN  ExpSeries(p, q, n + 1, next,
                       IF n % 2 = 1 THEN sum - next ELSE sum + next)

LargestBudget == IF MaxBalancedBudget > MaxBudget THEN MaxBalancedBudget ELSE MaxBudget

ExpNeg == [p \in 0..(MaxAlpha * LargestBudget), q \in 1..LargestBudget |->
              ExpSeries(p, q, 1, Scale, Scale)]

phi_alpha(f, a) == Scale - ExpNeg[a * (f[2] - f[1]), f[2]]

\* float('-inf'): below every score, and alpha times it is itself.
NegInf == 0 - 1000 * Scale

\* The left side of the comparison, had alpha been left out of it.
Times_unscaled(a, score) == score

Times(a, score) == IF score = NegInf THEN NegInf ELSE a * score

\* bids.get(name, {}).get(keyword, default)
\* (BidGet_default_one: had every lookup used the default of the rounding, 1.)
BidGet_default_one(bidtab, name, keyword, default) ==
    IF /\ name \in DOMAIN bidtab
       /\ keyword \in DOMAIN bidtab[name]
       /\ bidtab[name][keyword] # Missing
    THEN bidtab[name][keyword]
    ELSE 1

BidGet(bidtab, name, keyword, default) ==
    IF /\ name \in DOMAIN bidtab
       /\ keyword \in DOMAIN bidtab[name]
       /\ bidtab[name][keyword] # Missing
    THEN bidtab[name][keyword]
    ELSE default

\* ------------------------------------------------------------ registry
NoRet == [advertiser |-> 0, bid |-> 0]
Call(name, query) ==
    [name |-> name, query |-> query, o_copy |-> NoRet, p_copy |-> NoRet, success |-> TRUE]

\* Advertiser.reset_budgets on the authoritative list.
\* (ResetBudgets_keeps_spent: had it left the spent budgets as they were.)
ResetBudgets_keeps_spent(list) == list

ResetBudgets(list) == [i \in 1..Len(list) |-> [list[i] EXCEPT !.spent_budget = 0]]

\* Advertiser.reset_advertiser_list_copy: the heap and the cache after it, for
\* an allocator that holds the reference `held`.
\* (ResetCopy_same_list: had the cache been bound to the list itself.)
ResetCopy_same_list(list, heap, held) ==
    [copies |-> heap, advertiser_list_copy |-> 0]

ResetCopy(list, heap, held) ==
    LET r == FreshRef(held)
    IN  [copies |-> Collect([heap EXCEPT ![r] = deepcopy(list)], r, held),
         advertiser_list_copy |-> r]

\* Advertiser.get_advertiser_list_copy: the cached copy, made when there is none.
\* (GetCopy_uncached: had it copied the list on every call.)
GetCopy_uncached(list, heap, cache, held) == ResetCopy(list, heap, held)

GetCopy(list, heap, cache, held) ==
    IF cache = 0
    THEN ResetCopy(list, heap, held)
    ELSE [copies |-> heap, advertiser_list_copy |-> cache]

NoAllocator ==
    /\ kind' = "none"
    /\ alpha' = 1
    /\ adv_ref' = 0
    /\ offline_allocations' = <<>>
    /\ remaining_queries' = <<>>
    /\ allocations' = <<0, 0>>

InitFor(advertiser_counts, keyword_counts) ==
    /\ n_advertisers \in advertiser_counts
    /\ n_keywords \in keyword_counts
    /\ advertisers = <<>>
    /\ copies = [r \in 1..2 |-> <<>>]
    /\ advertiser_list_copy = 0
    /\ bids = <<>>
    /\ kind = "none"
    /\ alpha = 1
    /\ adv_ref = 0
    /\ offline_allocations = <<>>
    /\ remaining_queries = <<>>
    /\ allocations = <<0, 0>>
    /\ ret = NoRet
    /\ op = Call("init", 0)
    /\ only_queries = FALSE
    /\ runs = <<>>
    /\ error = "none"

Init == InitFor(AdvertiserCounts, KeywordCounts)

\* A caller fills the empty registry itself, as the example of advertiser.py
\* does: Advertiser(name, initial_budget) for distinct names, any budgets that
\* are not negative, and a bid table of its own, in which keywords may be
\* missing.
CreateAdvertisersUpTo(max_budget) ==
    /\ error = "none"
    /\ advertisers = <<>>
    /\ \E n \in AdvertiserCounts :
       \E budgets \in [1..n -> 0..max_budget],
          newbids \in [1..n -> [Keywords(n_keywords) -> BidValues]] :
          /\ advertisers' = [i \in 1..n |-> Advertiser(i, budgets[i], FALSE)]
          /\ bids' = newbids
    /\ NoAllocator
    /\ copies' = Collect(copies, advertiser_list_copy, 0)
    /\ ret' = NoRet
    /\ op' = Call("Advertiser", 0)
    /\ only_queries' = FALSE
    /\ UNCHANGED <<n_advertisers, n_keywords, advertiser_list_copy, runs, error>>

CreateAdvertisers == CreateAdvertisersUpTo(MaxBudget)

\* InputGenerator.generate_inputs: n_advertisers new advertisers A1..An, with
\* budgets of at least 1, are appended to the registry (Advertiser.__init__)
\* and a new bid table is drawn, with a bid of at least 0 for every keyword.
\* The allocators of the earlier run_experiment calls are gone by then.
generate_inputs ==
    /\ error = "none"
    /\ Len(advertisers) + n_advertisers \in AdvertiserCounts
    /\ \E budgets \in [1..n_advertisers -> 1..MaxBudget],
          newbids \in [1..n_advertisers -> [Keywords(n_keywords) -> 0..MaxBid]] :
          /\ advertisers' = advertisers \o [i \in 1..n_advertisers |-> Advertiser(i, budgets[i], TRUE)]
          /\ bids' = newbids
    /\ NoAllocator
    /\ copies' = Collect(copies, advertiser_list_copy, 0)
    /\ ret' = NoRet
    /\ op' = Call("generate_inputs", 0)
    /\ only_queries' = FALSE
    /\ UNCHANGED <<n_advertisers, n_keywords, advertiser_list_copy, runs, error>>

BudgetsReset ==
    /\ error = "none"
    /\ kind # "none"
    /\ advertisers' = ResetBudgets(advertisers)
    /\ ret' = NoRet
    /\ op' = Call("reset_budgets", 0)
    /\ only_queries' = FALSE
    /\ UNCHANGED <<n_advertisers, n_keywords, bids, copies, advertiser_list_copy, allocator, error>>

reset_budgets == BudgetsReset /\ UNCHANGED runs

reset_advertiser_list_copy ==
    /\ error = "none"
    /\ kind # "none"
    /\ LET w == ResetCopy(advertisers, copies, adv_ref)
       IN  /\ copies' = w.copies
           /\ advertiser_list_copy' = w.advertiser_list_copy
    /\ ret' = NoRet
    /\ op' = Call("reset_advertiser_list_copy", 0)
    /\ only_queries' = FALSE
    /\ UNCHANGED <<registry, allocator, runs, error>>

\* copy_list = Advertiser.get_advertiser_list_copy(), as the example of
\* advertiser.py calls it: the caller (kind "snapshot") holds the cached copy,
\* which is made when there is none.
get_advertiser_list_copy ==
    /\ error = "none"
    /\ kind \in {"none", "snapshot"}
    /\ advertisers # <<>>
    /\ \E c \in {GetCopy(advertisers, copies, advertiser_list_copy, 0)} :
          /\ copies' = Collect(c.copies, c.advertiser_list_copy, c.advertiser_list_copy)
          /\ advertiser_list_copy' = c.advertiser_list_copy
          /\ adv_ref' = c.advertiser_list_copy
    /\ kind' = "snapshot"
    /\ ret' = NoRet
    /\ op' = Call("get_advertiser_list_copy", 0)
    /\ only_queries' = FALSE
    /\ UNCHANGED <<registry, alpha, offline_allocations, remaining_queries, allocations,
                   runs, error>>

\* copy_list[i].deduct_budget(amount) on the list the caller holds.
copy_list_deduct_budget(i, amount) ==
    /\ error = "none"
    /\ kind = "snapshot"
    /\ LET copy_list == Deref(adv_ref, advertisers, copies)
       IN  /\ i \in 1..Len(copy_list)
           /\ \E d \in {deduct_budget(copy_list[i], amount)} :
              \E after \in {Store(adv_ref, [copy_list EXCEPT ![i] = d.adv],
                                   advertisers, copies)} :
                 /\ advertisers' = after.advertisers
                 /\ copies' = after.copies
                 /\ error' = IF d.raised THEN "InsufficientBudget" ELSE "none"
    /\ ret' = NoRet
    /\ op' = Call("copy_list.deduct_budget", 0)
    /\ only_queries' = FALSE
    /\ UNCHANGED <<n_advertisers, n_keywords, bids, advertiser_list_copy, allocator, runs>>

\* original_list[i].deduct_budget(amount) on Advertiser.get_advertisers().
original_list_deduct_budget(i, amount) ==
    /\ error = "none"
    /\ kind = "snapshot"
    /\ i \in 1..Len(advertisers)
    /\ \E d \in {deduct_budget(advertisers[i], amount)} :
          /\ advertisers' = [advertisers EXCEPT ![i] = d.adv]
          /\ error' = IF d.raised THEN "InsufficientBudget" ELSE "none"
    /\ ret' = NoRet
    /\ op' = Call("original_list.deduct_budget", 0)
    /\ only_queries' = FALSE
    /\ UNCHANGED <<n_advertisers, n_keywords, bids, copies, advertiser_list_copy, allocator,
                   runs>>

\* self.advertisers of a sub-allocator: the cached copy when it runs inside the
\* balanced allocator, the authoritative list (reference 0) otherwise.
\* (AllocatorAdvertisers_authoritative: had running_in_balanced been ignored.)
AllocatorAdvertisers_authoritative(running_in_balanced, cache) == 0

AllocatorAdvertisers(running_in_balanced, cache) ==
    IF running_in_balanced THEN cache ELSE 0

\* ------------------------------------------------------------ pessimistic
\* The loop below, had it scored an advertiser by its bid alone.
RECURSIVE PessimisticScan_bid_only(_, _, _, _, _, _)
PessimisticScan_bid_only(list, bidtab, a, query, i, best) ==
    IF i > Len(list) THEN best
    ELSE LET adv == list[i]
             bid == BidGet(bidtab, adv.name, query, 0)
             score == bid
         IN  IF bid > 0 /\ remaining_budget(adv) >= bid /\ score > best.highest_score
             THEN PessimisticScan_bid_only(list, bidtab, a, query, i + 1,
                      [best_advertiser |-> i, highest_score |-> score, best_bid |-> bid])
             ELSE PessimisticScan_bid_only(list, bidtab, a, query, i + 1, best)

\* The loop below, had it scored an advertiser by its bid alone and not
\* compared the bid with the remaining budget.
RECURSIVE PessimisticScan_ignores_budget(_, _, _, _, _, _)
PessimisticScan_ignores_budget(list, bidtab, a, query, i, best) ==
    IF i > Len(list) THEN best
    ELSE LET adv == list[i]
             bid == BidGet(bidtab, adv.name, query, 0)
             score == bid
         IN  IF bid > 0 /\ score > best.highest_score
             THEN PessimisticScan_ignores_budget(list, bidtab, a, query, i + 1,
                      [best_advertiser |-> i, highest_score |-> score, best_bid |-> bid])
             ELSE PessimisticScan_ignores_budget(list, bidtab, a, query, i + 1, best)

\* The loop below, had it left best_bid at the bid of the first advertiser
\* it took.
RECURSIVE PessimisticScan_first_bid(_, _, _, _, _, _)
PessimisticScan_first_bid(list, bidtab, a, query, i, best) ==
    IF i > Len(list) THEN best
    ELSE LET adv == list[i]
             bid == BidGet(bidtab, adv.name, query, 0)
             score == phi_alpha(budget_fraction(adv), a) * bid
         IN  IF bid > 0 /\ remaining_budget(adv) >= bid /\ score > best.highest_score
             THEN PessimisticScan_first_bid(list, bidtab, a, query, i + 1,
                      [best_advertiser |-> i, highest_score |-> score,
                       best_bid |-> IF best.best_advertiser = 0 THEN bid
                                    ELSE best.best_bid])
             ELSE PessimisticScan_first_bid(list, bidtab, a, query, i + 1, best)

\* The loop of PessimisticAlgorithm.allocate_query over advertisers i..: the
\* best advertiser (0: None), the highest score and the best bid so far.
RECURSIVE PessimisticScan(_, _, _, _, _, _)
PessimisticScan(list, bidtab, a, query, i, best) ==
    IF i > Len(list) THEN best
    ELSE LET adv == list[i]
             bid == BidGet(bidtab, adv.name, query, 0)
             score == phi_alpha(budget_fraction(adv), a) * bid
         IN  IF bid > 0 /\ remaining_budget(adv) >= bid /\ score > best.highest_score
             THEN PessimisticScan(list, bidtab, a, query, i + 1,
                      [best_advertiser |-> i, highest_score |-> score, best_bid |-> bid])
             ELSE PessimisticScan(list, bidtab, a, query, i + 1, best)

\* The call below, had it returned the best advertiser without deduct_budget.
PessimisticAllocate_no_deduct(list, bidtab, a, query) ==
    LET best == PessimisticScan(list, bidtab, a, query, 1,
                    [best_advertiser |-> 0, highest_score |-> NegInf, best_bid |-> 0])
    IN  [list |-> list, raised |-> FALSE,
         ret |-> [advertiser |-> best.best_advertiser, bid |-> best.best_bid]]

\* PessimisticAlgorithm.allocate_query on `list`: the list after the call and
\* what it returns.
PessimisticAllocate(list, bidtab, a, query) ==
    LET best == PessimisticScan(list, bidtab, a, query, 1,
                    [best_advertiser |-> 0, highest_score |-> NegInf, best_bid |-> 0])
        i == best.best_advertiser
    IN  IF i # 0
        THEN LET d == deduct_budget(list[i], best.best_bid)
             IN  [list |-> [list EXCEPT ![i] = d.adv],
                  raised |-> d.raised,
                  ret |-> [advertiser |-> i, bid |-> best.best_bid]]
        ELSE [list |-> list, raised |-> FALSE, ret |-> NoRet]

\* run_experiment: reset_budgets, reset_advertiser_list_copy, then
\* PessimisticAlgorithm(bids, alpha, False), which reads the authoritative list
\* and runs with alpha 1.0.
PessimisticPhase ==
    /\ error = "none"
    /\ kind = "none"
    /\ advertisers # <<>>
    /\ \E auth \in {ResetBudgets(advertisers)} :
       \E w \in {ResetCopy(auth, copies, 0)} :
          /\ advertisers' = auth
          /\ copies' = w.copies
          /\ advertiser_list_copy' = w.advertiser_list_copy
    /\ kind' = "pessimistic"
    /\ alpha' = 1
    /\ adv_ref' = AllocatorAdvertisers(FALSE, advertiser_list_copy')
    /\ offline_allocations' = <<>>
    /\ remaining_queries' = <<>>
    /\ allocations' = <<0, 0>>
    /\ ret' = NoRet
    /\ op' = Call("PessimisticAlgorithm", 0)
    /\ only_queries' = TRUE
    /\ UNCHANGED <<n_advertisers, n_keywords, bids, error>>

StartPessimistic == PessimisticPhase /\ UNCHANGED runs

\* ------------------------------------------------------------ offline oracle
RECURSIVE SumTo(_, _)
SumTo(f, n) == IF n = 0 THEN 0 ELSE f[n] + SumTo(f, n - 1)

\* Python's min, and (Min_first) a min that keeps its first argument.
Min_first(a, b) == a

Min(a, b) == IF a <= b THEN a ELSE b

\* The LP variable of advertiser i (1..n) and keyword k (1..n_keywords):
\* Python's idx = i + k * n_advertisers, counted from 1 here.
VarIdx(i, k, n) == i + (k - 1) * n
advertiser_idx(idx, n) == ((idx - 1) % n) + 1
keyword_idx(idx, n) == ((idx - 1) \div n) + 1

\* The constraints solve_allocation hands to linprog, on a solution x in units
\* of 1/SolDen: each advertiser's budget and each keyword's predicted volume.
LPFeasible(x, nk, list, bidtab, predicted) ==
    LET n == Len(list)
    IN  /\ \A i \in 1..n :
             SumTo([k \in Keywords(nk) |->
                       BidGet(bidtab, list[i].name, k, 0) * x[VarIdx(i, k, n)]], nk)
               <= SolDen * list[i].initial_budget
        /\ \A k \in Keywords(nk) :
             SumTo([i \in 1..n |-> x[VarIdx(i, k, n)]], n) <= SolDen * predicted[k]

\* The objective solve_allocation maximises (linprog minimises its negation).
Objective(x, nk, list, bidtab) ==
    LET n == Len(list)
    IN  SumTo([idx \in 1..(n * nk) |->
                  BidGet(bidtab, list[advertiser_idx(idx, n)].name, keyword_idx(idx, n), 0) * x[idx]],
              n * nk)

\* What linprog may return on success: an optimal point of the feasible region
\* (the optima that lie on the grid of 1/SolDen).
Solutions(nk, list, bidtab, predicted) ==
    LET feasible == {x \in [1..(Len(list) * nk) -> 0..(SolDen * MaxDemand)] :
                        LPFeasible(x, nk, list, bidtab, predicted)}
        values == {Objective(y, nk, list, bidtab) : y \in feasible}
        optimum == CHOOSE v \in values : \A u \in values : u <= v
    IN  {x \in feasible : Objective(x, nk, list, bidtab) = optimum}

\* sorted(range(len(solution)), key=lambda i: -solution[i]): descending by
\* value, equal values in index order (the sort is stable).  The indices whose
\* value is v, in index order, for v from the largest value down to 0.
RECURSIVE IndicesFrom(_, _)
IndicesFrom(x, v) ==
    IF v < 0 THEN <<>>
    ELSE SelectSeq([i \in 1..Len(x) |-> i], LAMBDA i : x[i] = v) \o IndicesFrom(x, v - 1)

fractional_indices(x) ==
    IndicesFrom(x, CHOOSE v \in {x[i] : i \in 1..Len(x)} :
                       \A i \in 1..Len(x) : x[i] <= v)

\* The loop of round_solution_to_integers.  st: the allocations matrix, the
\* advertisers of the oracle's list (the very records of the list it was
\* handed: list.copy() is shallow), the remaining queries and the exception
\* raised, if any.
\* The end of the loop body: allocations[i, k] = max_allocation,
\* advertiser.deduct_budget(max_allocation * bid), remaining_queries -= it.
RoundAllocate(i, k, bid, max_allocation, st) ==
    LET d == deduct_budget(st.advertisers[i], max_allocation * bid)
    IN  IF d.raised THEN [st EXCEPT !.error = "InsufficientBudget"]
        ELSE [allocations |-> [st.allocations EXCEPT ![i][k] = max_allocation],
              advertisers |-> [st.advertisers EXCEPT ![i] = d.adv],
              remaining_queries |-> [st.remaining_queries EXCEPT ![k] = @ - max_allocation],
              error |-> "none"]

\* max_allocation = min(int(solution[idx]), remaining_queries[keyword],
\* (initial_budget - spent_budget) // bid), bid being bids[name].get(keyword, 1).
\* A Python number divided by 0 raises; a numpy.float64 divided by 0 is inf or
\* nan, which min, given it last, never returns.
RoundWithBid(value, i, k, bid, st) ==
    IF bid = 0
    THEN IF st.advertisers[i].float64
         THEN RoundAllocate(i, k, bid, Min(value \div SolDen, st.remaining_queries[k]), st)
         ELSE [st EXCEPT !.error = "ZeroDivisionError"]
    ELSE RoundAllocate(i, k, bid,
             Min(value \div SolDen,
                 Min(st.remaining_queries[k],
                     (st.advertisers[i].initial_budget - st.advertisers[i].spent_budget)
                         \div bid)),
             st)

\* The loop body for the variable of value `value`, advertiser i and keyword k.
RoundOne(value, i, k, bidtab, st) ==
    IF value = 0 THEN st
    ELSE IF st.advertisers[i].name \notin DOMAIN bidtab
    THEN [st EXCEPT !.error = "KeyError"]
    ELSE RoundWithBid(value, i, k, BidGet(bidtab, st.advertisers[i].name, k, 1), st)

\* The loop from position pos of the order on.
RECURSIVE RoundLoop(_, _, _, _, _)
RoundLoop(x, order, bidtab, pos, st) ==
    IF pos > Len(order) \/ st.error # "none" THEN st
    ELSE RoundLoop(x, order, bidtab, pos + 1,
             RoundOne(x[order[pos]],
                      advertiser_idx(order[pos], Len(st.advertisers)),
                      keyword_idx(order[pos], Len(st.advertisers)),
                      bidtab, st))

round_solution_to_integers(x, list, bidtab, predicted) ==
    RoundLoop(x, fractional_indices(x), bidtab, 1,
              [allocations |-> [i \in 1..Len(list) |-> [k \in DOMAIN predicted |-> 0]],
               advertisers |-> list,
               remaining_queries |-> predicted,
               error |-> "none"])

\* solve_allocation: linprog succeeds with solution x, or fails.
\* (solve_allocation_ignores_failure: had result.success not been read.)
solve_allocation_ignores_failure(success, x, list, bidtab, predicted) ==
    round_solution_to_integers(x, list, bidtab, predicted)

solve_allocation(success, x, list, bidtab, predicted) ==
    IF success
    THEN round_solution_to_integers(x, list, bidtab, predicted)
    ELSE [allocations |-> <<>>, advertisers |-> list,
          remaining_queries |-> predicted, error |-> "SolverFailure"]

\* ------------------------------------------------------------ optimistic
\* The loop below, had it compared bids with >=.
RECURSIVE OptimisticScan_last_wins(_, _, _, _, _, _)
OptimisticScan_last_wins(list, bidtab, plan, query, i, best) ==
    IF i > Len(list) THEN best
    ELSE LET bid == BidGet(bidtab, list[i].name, query, 0)
         IN  IF /\ plan[i][query] > 0
                /\ remaining_budget(list[i]) >= bid
                /\ bid >= best.highest_bid
             THEN OptimisticScan_last_wins(list, bidtab, plan, query, i + 1,
                      [assigned_advertiser |-> i, highest_bid |-> bid])
             ELSE OptimisticScan_last_wins(list, bidtab, plan, query, i + 1, best)

\* The loop below, had it taken every advertiser, assigned to the keyword or not.
RECURSIVE OptimisticScan_ignores_plan(_, _, _, _, _, _)
OptimisticScan_ignores_plan(list, bidtab, plan, query, i, best) ==
    IF i > Len(list) THEN best
    ELSE LET bid == BidGet(bidtab, list[i].name, query, 0)
         IN  IF /\ remaining_budget(list[i]) >= bid
                /\ bid > best.highest_bid
             THEN OptimisticScan_ignores_plan(list, bidtab, plan, query, i + 1,
                      [assigned_advertiser |-> i, highest_bid |-> bid])
             ELSE OptimisticScan_ignores_plan(list, bidtab, plan, query, i + 1, best)

\* The second loop of OptimisticAlgorithm.allocate_query: among the advertisers
\* the plan assigns to the keyword, the one with the highest bid it can pay.
RECURSIVE OptimisticScan(_, _, _, _, _, _)
OptimisticScan(list, bidtab, plan, query, i, best) ==
    IF i > Len(list) THEN best
    ELSE LET bid == BidGet(bidtab, list[i].name, query, 0)
         IN  IF /\ plan[i][query] > 0
                /\ remaining_budget(list[i]) >= bid
                /\ bid > best.highest_bid
             THEN OptimisticScan(list, bidtab, plan, query, i + 1,
                      [assigned_advertiser |-> i, highest_bid |-> bid])
             ELSE OptimisticScan(list, bidtab, plan, query, i + 1, best)

\* The call below, had it counted a dismissed query of a known keyword against
\* the keyword's remaining demand.
OptimisticAllocate_counts_dismissed(list, bidtab, plan, remq, query) ==
    LET same == [list |-> list, plan |-> plan, remq |-> remq, raised |-> FALSE, ret |-> NoRet]
    IN  IF (IF query \in DOMAIN remq THEN remq[query] ELSE 0) <= 0
        THEN IF query \in DOMAIN remq
             THEN [same EXCEPT !.remq = [remq EXCEPT ![query] = @ - 1]]
             ELSE same
        ELSE IF query \notin DOMAIN remq THEN same
        ELSE IF \A i \in 1..Len(list) : plan[i][query] <= 0 THEN same
        ELSE LET best == OptimisticScan(list, bidtab, plan, query, 1,
                             [assigned_advertiser |-> 0, highest_bid |-> -1])
                 i == best.assigned_advertiser
             IN  IF i = 0 THEN same
                 ELSE LET d == deduct_budget(list[i], best.highest_bid)
                      IN  IF d.raised
                          THEN [list |-> list,
                                plan |-> [plan EXCEPT ![i][query] = @ - 1],
                                remq |-> remq, raised |-> TRUE, ret |-> NoRet]
                          ELSE [list |-> [list EXCEPT ![i] = d.adv],
                                plan |-> [plan EXCEPT ![i][query] = @ - 1],
                                remq |-> [remq EXCEPT ![query] = @ - 1],
                                raised |-> FALSE,
                                ret |-> [advertiser |-> i, bid |-> best.highest_bid]]

\* OptimisticAlgorithm.allocate_query on `list`: the list, the plan and the
\* remaining queries after the call, and what it returns.
OptimisticAllocate(list, bidtab, plan, remq, query) ==
    LET same == [list |-> list, plan |-> plan, remq |-> remq, raised |-> FALSE, ret |-> NoRet]
    IN  IF (IF query \in DOMAIN remq THEN remq[query] ELSE 0) <= 0 THEN same
        ELSE IF query \notin DOMAIN remq THEN same
        ELSE IF \A i \in 1..Len(list) : plan[i][query] <= 0 THEN same
        ELSE LET best == OptimisticScan(list, bidtab, plan, query, 1,
                             [assigned_advertiser |-> 0, highest_bid |-> -1])
                 i == best.assigned_advertiser
             IN  IF i = 0 THEN same
                 ELSE LET d == deduct_budget(list[i], best.highest_bid)
                      IN  IF d.raised
                          THEN [list |-> list,
                                plan |-> [plan EXCEPT ![i][query] = @ - 1],
                                remq |-> remq, raised |-> TRUE, ret |-> NoRet]
                          ELSE [list |-> [list EXCEPT ![i] = d.adv],
                                plan |-> [plan EXCEPT ![i][query] = @ - 1],
                                remq |-> [remq EXCEPT ![query] = @ - 1],
                                raised |-> FALSE,
                                ret |-> [advertiser |-> i, bid |-> best.highest_bid]]

\* What linprog returns: on success a solution, on failure none (the model
\* keeps the zero vector in its place, which nothing reads).
LinprogResults(success, nk, list, bidtab, predicted) ==
    IF success THEN Solutions(nk, list, bidtab, predicted)
    ELSE {[idx \in 1..(Len(list) * nk) |-> 0]}

\* Any vector of non-negative entries: what the rounding step may be handed.
AnySolution(nk, list) == [1..(Len(list) * nk) -> 0..MaxSolution]

\* The list OptimisticAlgorithm.__init__ hands to the oracle:
\* Advertiser.get_advertiser_list_copy(), the cached copy.
\* (OracleAdvertisers_authoritative: had it been Advertiser.get_advertisers().)
OracleAdvertisers_authoritative(cache) == 0

OracleAdvertisers(cache) == cache

\* OptimisticAlgorithm.__init__: the oracle plans on the list it is handed,
\* whose records its rounding debits (self.advertisers.copy() is a shallow
\* copy); the allocator then serves from the cached copy (running_in_balanced)
\* or from the authoritative list (reference 0).  The lists, the cache and the
\* allocator's fields after the call; `error` tells whether the constructor
\* raised, and then there is no allocator.
OptimisticAlgorithm(auth, heap, cache0, bidtab, predicted, success, x, running_in_balanced) ==
    LET c == GetCopy(auth, heap, cache0, 0)
        cache == c.advertiser_list_copy
        given == OracleAdvertisers(cache)
        Built(oracle) ==
            LET after == Store(given, oracle.advertisers, auth, c.copies)
                held == IF oracle.error = "none"
                        THEN AllocatorAdvertisers(running_in_balanced, cache) ELSE 0
            IN  [authoritative |-> after.advertisers,
                 copies |-> Collect(after.copies, cache, held),
                 advertiser_list_copy |-> cache,
                 error |-> oracle.error,
                 advertisers |-> held,
                 offline_allocations |-> oracle.allocations,
                 remaining_queries |-> IF oracle.error = "none" THEN predicted ELSE <<>>]
    IN  Built(solve_allocation(success, x, Deref(given, auth, c.copies), bidtab, predicted))

\* The phase of run_experiment that builds an allocator: reset_budgets,
\* reset_advertiser_list_copy, then the constructor.  Each phase starts from a
\* reset ledger and a fresh cache whatever the phase before it left, so the
\* model starts every phase from the state generate_inputs leaves.
StartOptimisticLike(name, a, running_in_balanced, arbitrary, call) ==
    /\ error = "none"
    /\ kind = "none"
    /\ advertisers # <<>>
    /\ \E auth \in {ResetBudgets(advertisers)} :
       \E w \in {ResetCopy(auth, copies, 0)} :
       \E predicted \in [Keywords(n_keywords) -> 0..MaxDemand],
           success \in IF arbitrary THEN {TRUE} ELSE BOOLEAN :
       \E x \in IF arbitrary
                THEN AnySolution(n_keywords, auth)
                ELSE LinprogResults(success, n_keywords, w.copies[w.advertiser_list_copy],
                                    bids, predicted) :
       \E new \in {OptimisticAlgorithm(auth, w.copies, w.advertiser_list_copy, bids,
                                       predicted, success, x, running_in_balanced)} :
          /\ advertisers' = new.authoritative
          /\ copies' = new.copies
          /\ advertiser_list_copy' = new.advertiser_list_copy
          /\ error' = new.error
          /\ kind' = IF new.error = "none" THEN name ELSE "none"
          /\ alpha' = IF new.error = "none" THEN a ELSE 1
          /\ adv_ref' = new.advertisers
          /\ offline_allocations' = new.offline_allocations
          /\ remaining_queries' = new.remaining_queries
          /\ allocations' = <<0, 0>>
          /\ op' = [Call(call, 0) EXCEPT !.success = success]
    /\ ret' = NoRet
    /\ UNCHANGED <<n_advertisers, n_keywords, bids>>

OptimisticPhase ==
    /\ StartOptimisticLike("optimistic", 1, FALSE, FALSE, "OptimisticAlgorithm")
    /\ only_queries' = TRUE

StartOptimistic == OptimisticPhase /\ UNCHANGED runs

\* The same construction with any non-negative vector in the place of the
\* solution linprog found: round_solution_to_integers on an arbitrary input.
RoundAnySolution ==
    /\ StartOptimisticLike("optimistic", 1, FALSE, TRUE, "round_solution_to_integers")
    /\ only_queries' = TRUE
    /\ UNCHANGED runs

\* BalancedAlgorithm(n_keywords, bids, predicted_queries, alpha): an optimistic
\* and a pessimistic allocator, both on the cached copy.
BalancedPhase ==
    /\ \E a \in 1..MaxAlpha :
          StartOptimisticLike("balanced", a, TRUE, FALSE, "BalancedAlgorithm")
    /\ only_queries' = TRUE

StartBalanced == BalancedPhase /\ UNCHANGED runs

\* ------------------------------------------------------------ allocate_query
PessimisticQuery(query) ==
    /\ error = "none"
    /\ kind = "pessimistic"
    /\ \E r \in {PessimisticAllocate(advertisers, bids, alpha, query)} :
           /\ advertisers' = r.list
           /\ ret' = r.ret
           /\ error' = IF r.raised THEN "InsufficientBudget" ELSE "none"
    /\ op' = Call("allocate_query", query)
    /\ UNCHANGED <<only_queries, n_advertisers, n_keywords, bids, copies, advertiser_list_copy, allocator>>

AllocatePessimistic(query) == PessimisticQuery(query) /\ UNCHANGED runs

OptimisticQuery(query) ==
    /\ error = "none"
    /\ kind = "optimistic"
    /\ \E r \in {OptimisticAllocate(advertisers, bids, offline_allocations,
                                      remaining_queries, query)} :
           /\ advertisers' = r.list
           /\ offline_allocations' = r.plan
           /\ remaining_queries' = r.remq
           /\ ret' = r.ret
           /\ error' = IF r.raised THEN "InsufficientBudget" ELSE "none"
    /\ op' = Call("allocate_query", query)
    /\ UNCHANGED <<only_queries, n_advertisers, n_keywords, bids, copies, advertiser_list_copy,
                   kind, alpha, adv_ref, allocations>>

AllocateOptimistic(query) == OptimisticQuery(query) /\ UNCHANGED runs

\* [adv for adv in Advertiser.get_advertisers() if adv.name == name][0]
FirstByName(list, name) ==
    CHOOSE i \in 1..Len(list) :
        /\ list[i].name = name
        /\ \A j \in 1..(i - 1) : list[j].name # name

\* The call below, had the plan and the remaining queries been put back when
\* the pessimistic candidate is the one committed.
BalancedAllocate_refunds_plan(auth0, heap, held, bidtab, a, plan, remq, counters, query) ==
    LET w == ResetCopy(auth0, heap, held)
        shadow == Deref(held, auth0, w.copies)
        o_copy == OptimisticAllocate(shadow, bidtab, plan, remq, query)
        p_copy == PessimisticAllocate(o_copy.list, bidtab, a, query)
        after == Store(held, p_copy.list, auth0, w.copies)
        auth == after.advertisers
        o == IF o_copy.ret.advertiser # 0
             THEN [advertiser |-> FirstByName(auth, shadow[o_copy.ret.advertiser].name),
                   bid |-> o_copy.ret.bid]
             ELSE NoRet
        p == IF p_copy.ret.advertiser # 0
             THEN [advertiser |-> FirstByName(auth, shadow[p_copy.ret.advertiser].name),
                   bid |-> p_copy.ret.bid]
             ELSE NoRet
        o_score == IF o.advertiser # 0
                   THEN phi_alpha(budget_fraction(auth[o.advertiser]), a) * o.bid
                   ELSE NegInf
        p_score == IF p.advertiser # 0
                   THEN phi_alpha(budget_fraction(auth[p.advertiser]), a) * p.bid
                   ELSE NegInf
        optimistic == Times(a, o_score) >= p_score
        chosen == IF optimistic THEN o ELSE p
        base == [advertisers |-> auth,
                 copies |-> after.copies,
                 advertiser_list_copy |-> w.advertiser_list_copy,
                 offline_allocations |-> o_copy.plan,
                 remaining_queries |-> o_copy.remq,
                 allocations |-> counters,
                 o_copy |-> o_copy.ret,
                 p_copy |-> p_copy.ret,
                 raised |-> FALSE,
                 ret |-> NoRet]
    IN  IF o_copy.raised \/ p_copy.raised THEN [base EXCEPT !.raised = TRUE]
        ELSE IF o.advertiser = 0 /\ p.advertiser = 0 THEN base
        ELSE LET d == deduct_budget(auth[chosen.advertiser], chosen.bid)
             IN  [base EXCEPT
                    !.allocations = IF optimistic THEN <<counters[1] + 1, counters[2]>>
                                                  ELSE <<counters[1], counters[2] + 1>>,
                    !.advertisers = [auth EXCEPT ![chosen.advertiser] = d.adv],
                    !.offline_allocations = IF optimistic THEN o_copy.plan ELSE plan,
                    !.remaining_queries = IF optimistic THEN o_copy.remq ELSE remq,
                    !.raised = d.raised,
                    !.ret = IF d.raised THEN NoRet ELSE chosen]

\* BalancedAlgorithm.allocate_query: the authoritative list, the heap, the
\* cache, the optimistic allocator's plan and remaining queries and the
\* counters after the call, what the two sub-allocators returned, and what the
\* call returns unless it raised.
BalancedAllocate(auth0, heap, held, bidtab, a, plan, remq, counters, query) ==
    LET w == ResetCopy(auth0, heap, held)
        shadow == Deref(held, auth0, w.copies)
        o_copy == OptimisticAllocate(shadow, bidtab, plan, remq, query)
        p_copy == PessimisticAllocate(o_copy.list, bidtab, a, query)
        after == Store(held, p_copy.list, auth0, w.copies)
        auth == after.advertisers
        o == IF o_copy.ret.advertiser # 0
             THEN [advertiser |-> FirstByName(auth, shadow[o_copy.ret.advertiser].name),
                   bid |-> o_copy.ret.bid]
             ELSE NoRet
        p == IF p_copy.ret.advertiser # 0
             THEN [advertiser |-> FirstByName(auth, shadow[p_copy.ret.advertiser].name),
                   bid |-> p_copy.ret.bid]
             ELSE NoRet
        o_score == IF o.advertiser # 0
                   THEN phi_alpha(budget_fraction(auth[o.advertiser]), a) * o.bid
                   ELSE NegInf
        p_score == IF p.advertiser # 0
                   THEN phi_alpha(budget_fraction(auth[p.advertiser]), a) * p.bid
                   ELSE NegInf
        optimistic == Times(a, o_score) >= p_score
        chosen == IF optimistic THEN o ELSE p
        base == [advertisers |-> auth,
                 copies |-> after.copies,
                 advertiser_list_copy |-> w.advertiser_list_copy,
                 offline_allocations |-> o_copy.plan,
                 remaining_queries |-> o_copy.remq,
                 allocations |-> counters,
                 o_copy |-> o_copy.ret,
                 p_copy |-> p_copy.ret,
                 raised |-> FALSE,
                 ret |-> NoRet]
    IN  IF o_copy.raised \/ p_copy.raised THEN [base EXCEPT !.raised = TRUE]
        ELSE IF o.advertiser = 0 /\ p.advertiser = 0 THEN base
        ELSE LET d == deduct_budget(auth[chosen.advertiser], chosen.bid)
             IN  [base EXCEPT
                    !.allocations = IF optimistic THEN <<counters[1] + 1, counters[2]>>
                                                  ELSE <<counters[1], counters[2] + 1>>,
                    !.advertisers = [auth EXCEPT ![chosen.advertiser] = d.adv],
                    !.raised = d.raised,
                    !.ret = IF d.raised THEN NoRet ELSE chosen]

BalancedQuery(query) ==
    /\ error = "none"
    /\ kind = "balanced"
    /\ \E r \in {BalancedAllocate(advertisers, copies, adv_ref, bids, alpha,
                                  offline_allocations, remaining_queries, allocations, query)} :
          /\ advertisers' = r.advertisers
          /\ copies' = r.copies
          /\ advertiser_list_copy' = r.advertiser_list_copy
          /\ offline_allocations' = r.offline_allocations
          /\ remaining_queries' = r.remaining_queries
          /\ allocations' = r.allocations
          /\ ret' = r.ret
          /\ error' = IF r.raised THEN "InsufficientBudget" ELSE "none"
          /\ op' = [Call("allocate_query", query) EXCEPT
                        !.o_copy = r.o_copy, !.p_copy = r.p_copy]
    /\ UNCHANGED <<n_advertisers, n_keywords, bids, kind, alpha, adv_ref, only_queries>>

AllocateBalanced(query) == BalancedQuery(query) /\ UNCHANGED runs

Next ==
    \/ CreateAdvertisers
    \/ generate_inputs
    \/ reset_budgets
    \/ reset_advertiser_list_copy
    \/ StartPessimistic
    \/ StartOptimistic
    \/ StartBalanced
    \/ \E query \in Queries(n_keywords) : AllocatePessimistic(query)
    \/ \E query \in Queries(n_keywords) : AllocateOptimistic(query)
    \/ \E query \in Queries(n_keywords) : AllocateBalanced(query)

Spec == Init /\ [][Next]_vars

\* The rounding step alone, on two keywords: a registry is filled, then an
\* allocator is built on an arbitrary solution.
InitRounding == InitFor({1}, RoundingKeywordCounts)

NextRounding ==
    \/ CreateAdvertisers
    \/ RoundAnySolution

SpecRounding == InitRounding /\ [][NextRounding]_vars

\* The balanced allocator alone, on a registry the caller fills with budgets
\* large enough for its two sub-allocators to disagree.
NextBalanced ==
    \/ CreateAdvertisersUpTo(MaxBalancedBudget)
    \/ StartBalanced
    \/ \E query \in Queries(n_keywords) : AllocateBalanced(query)

SpecBalanced == InitFor({1}, KeywordCounts) /\ [][NextBalanced]_vars

\* The registry alone, used as the example of advertiser.py uses it: the
\* caller takes the cached copy, debits its records and the original ones, and
\* resets the budgets and the cache.
NextRegistry ==
    \/ CreateAdvertisers
    \/ get_advertiser_list_copy
    \/ \E i \in 1..2, amount \in 1..MaxBudget : copy_list_deduct_budget(i, amount)
    \/ \E i \in 1..2, amount \in 1..MaxBudget : original_list_deduct_budget(i, amount)
    \/ reset_budgets
    \/ reset_advertiser_list_copy

SpecRegistry == InitFor({1}, KeywordCounts) /\ [][NextRegistry]_vars

\* The pessimistic phase of run_experiment, run twice on one query stream:
\* the allocator is built on reset budgets and serves the stream, recording
\* what each query returns; the driver calls reset_budgets and the same
\* allocator serves the same queries again.
FirstRun ==
    /\ PessimisticPhase
    /\ runs' = << <<>> >>

Served(query) == [query |-> query, advertiser |-> ret'.advertiser, bid |-> ret'.bid]

FirstRunQuery(query) ==
    /\ Len(runs) = 1
    /\ Len(runs[1]) < MaxQueries
    /\ PessimisticQuery(query)
    /\ runs' = <<Append(runs[1], Served(query))>>

ResetBetweenRuns ==
    /\ Len(runs) = 1
    /\ BudgetsReset
    /\ runs' = <<runs[1], <<>> >>

SecondRunQuery ==
    /\ Len(runs) = 2
    /\ Len(runs[2]) < Len(runs[1])
    /\ \E query \in {runs[1][Len(runs[2]) + 1].query} :
          /\ PessimisticQuery(query)
          /\ runs' = <<runs[1], Append(runs[2], Served(query))>>

NextReplay ==
    \/ CreateAdvertisers
    \/ generate_inputs
    \/ FirstRun
    \/ \E query \in Queries(n_keywords) : FirstRunQuery(query)
    \/ ResetBetweenRuns
    \/ SecondRunQuery

SpecReplay == Init /\ [][NextReplay]_vars

\* The three phases of run_experiment, each recording what its queries
\* return: the allocator is built on reset budgets and serves a query stream.
OptimisticRun ==
    /\ OptimisticPhase
    /\ runs' = << <<>> >>

BalancedRun ==
    /\ BalancedPhase
    /\ runs' = << <<>> >>

OptimisticRunQuery(query) ==
    /\ Len(runs) = 1
    /\ Len(runs[1]) < MaxQueries
    /\ OptimisticQuery(query)
    /\ runs' = <<Append(runs[1], Served(query))>>

BalancedRunQuery(query) ==
    /\ Len(runs) = 1
    /\ Len(runs[1]) < MaxQueries
    /\ BalancedQuery(query)
    /\ runs' = <<Append(runs[1], Served(query))>>

NextRevenue ==
    \/ CreateAdvertisers
    \/ generate_inputs
    \/ OptimisticRun
    \/ FirstRun
    \/ BalancedRun
    \/ \E query \in Queries(n_keywords) : OptimisticRunQuery(query)
    \/ \E query \in Queries(n_keywords) : FirstRunQuery(query)
    \/ \E query \in Queries(n_keywords) : BalancedRunQuery(query)

SpecRevenue == Init /\ [][NextRevenue]_vars

\* pessimistic_revenue of one pass: the sum of the bids it returned.
RECURSIVE pessimistic_revenue(_)
pessimistic_revenue(run) ==
    IF run = <<>> THEN 0
    ELSE (IF Head(run).advertiser # 0 THEN Head(run).bid ELSE 0)
         + pessimistic_revenue(Tail(run))

\* ------------------------------------------------------------ properties
\* The list the allocator's sub-allocators read and debit.
Shadow == Deref(adv_ref, advertisers, copies)

\* C1: every advertiser of the authoritative list has
\* 0 <= spent_budget <= initial_budget, in every state that reset_budgets and
\* the allocate_query of the three allocators reach.
C1_SpentWithinBudget ==
    \A i \in 1..Len(advertisers) :
        /\ 0 <= advertisers[i].spent_budget
        /\ advertisers[i].spent_budget <= advertisers[i].initial_budget

\* An allocate_query has spent the last of an advertiser's budget.
C1_Witness ==
    /\ op.name = "allocate_query"
    /\ ret.advertiser # 0
    /\ advertisers[ret.advertiser].initial_budget > 0
    /\ advertisers[ret.advertiser].spent_budget = advertisers[ret.advertiser].initial_budget

\* C2: on an allocator built after reset_budgets and
\* reset_advertiser_list_copy and used for allocate_query calls only, no
\* deduct_budget call asks for more than the advertiser's remaining budget:
\* the insufficient-budget error is never raised.
C2_DeductNeverRaises ==
    (only_queries /\ op.name = "allocate_query") => error # "InsufficientBudget"

\* C3: a balanced allocate_query that returns (advertiser, bid) adds exactly
\* bid to the spent_budget of that authoritative advertiser and changes no
\* other; one that returns (None, 0) changes no authoritative advertiser.
C3_BalancedSingleDeduction ==
    [][(kind = "balanced" /\ op'.name = "allocate_query" /\ error' = "none") =>
          IF ret'.advertiser # 0
          THEN advertisers' = [advertisers EXCEPT
                                  ![ret'.advertiser].spent_budget = @ + ret'.bid]
          ELSE advertisers' = advertisers]_vars

\* A balanced allocate_query whose two sub-allocators proposed two different
\* advertisers, each for a positive bid, returned one of them.
C3_Witness ==
    /\ kind = "balanced"
    /\ op.name = "allocate_query"
    /\ error = "none"
    /\ op.o_copy.advertiser # 0
    /\ op.p_copy.advertiser # 0
    /\ op.o_copy.advertiser # op.p_copy.advertiser
    /\ op.o_copy.bid > 0
    /\ op.p_copy.bid > 0
    /\ ret.advertiser # 0

\* C4: when a balanced allocate_query invokes its optimistic sub-allocator,
\* every record of the list the sub-allocators read and debit has the
\* spent_budget of the authoritative advertiser of the same name.
C4_ShadowFreshAtQuery ==
    [][(kind = "balanced" /\ error = "none" /\ op'.name = "allocate_query") =>
          \A i \in 1..Len(Shadow) :
              Shadow[i].spent_budget =
                  advertisers[FirstByName(advertisers, Shadow[i].name)].spent_budget]_vars

\* C5: right after a balanced allocator is built, every record of the list its
\* sub-allocators operate on has spent_budget 0.
C5_ShadowUnspentAfterConstruction ==
    (kind = "balanced" /\ op.name = "BalancedAlgorithm") =>
        \A i \in 1..Len(Shadow) : Shadow[i].spent_budget = 0

\* C6: building an optimistic or a balanced allocator leaves the spent_budget
\* of every authoritative advertiser as reset_budgets left it.
C6_ConstructionKeepsLedger ==
    [][op'.name \in {"OptimisticAlgorithm", "BalancedAlgorithm"} =>
          advertisers' = ResetBudgets(advertisers)]_vars

\* An optimistic allocator was built and the rounding of its oracle debited a
\* record of the cached copy.
C6_Witness ==
    /\ op.name = "OptimisticAlgorithm"
    /\ kind = "optimistic"
    /\ \E i \in 1..Len(copies[advertiser_list_copy]) :
           copies[advertiser_list_copy][i].spent_budget > 0

\* The advertisers of `list` that bid on the query and can pay their bid, and
\* the score of one of them.
Eligible(list, bidtab, query) ==
    {i \in 1..Len(list) :
        /\ BidGet(bidtab, list[i].name, query, 0) > 0
        /\ remaining_budget(list[i]) >= BidGet(bidtab, list[i].name, query, 0)}

Score(list, bidtab, a, query, i) ==
    phi_alpha(budget_fraction(list[i]), a) * BidGet(bidtab, list[i].name, query, 0)

\* C8: the pessimistic allocate_query returns the eligible advertiser (bid > 0,
\* remaining_budget >= bid) of maximum score phi_alpha(budget_fraction) * bid,
\* the first one in the order of the list when scores tie, and adds its bid to
\* its spent_budget and to no other; it returns (None, 0) and debits nobody
\* exactly when no advertiser is eligible.
C8_PessimisticPicksMaxScore ==
    [][(kind = "pessimistic" /\ op'.name = "allocate_query") =>
          LET query == op'.query
              eligible == Eligible(advertisers, bids, query)
          IN  /\ error' = "none"
              /\ ret'.advertiser = 0 <=> eligible = {}
              /\ IF eligible = {}
                 THEN ret' = NoRet /\ advertisers' = advertisers
                 ELSE LET i == ret'.advertiser
                      IN  /\ i \in eligible
                          /\ \A j \in eligible :
                                \/ Score(advertisers, bids, alpha, query, j)
                                     < Score(advertisers, bids, alpha, query, i)
                                \/ /\ Score(advertisers, bids, alpha, query, j)
                                        = Score(advertisers, bids, alpha, query, i)
                                   /\ i <= j
                          /\ ret'.bid = BidGet(bids, advertisers[i].name, query, 0)
                          /\ advertisers' = [advertisers EXCEPT
                                                ![i].spent_budget = @ + ret'.bid]]_vars

\* The pessimistic allocator returned the second advertiser although the first
\* was eligible too, for the same bid, with a lower score: after the call both
\* can still be told apart by what they have spent.
C8_Witness ==
    /\ kind = "pessimistic"
    /\ op.name = "allocate_query"
    /\ op.query \in Keywords(n_keywords)
    /\ Len(advertisers) = 2
    /\ ret.advertiser = 2
    /\ BidGet(bids, advertisers[1].name, op.query, 0) = ret.bid
    /\ remaining_budget(advertisers[1]) >= ret.bid

\* The advertisers the plan assigns to the query that can pay their bid.
PlanEligible(list, bidtab, plan, query) ==
    {i \in 1..Len(list) :
        /\ plan[i][query] > 0
        /\ remaining_budget(list[i]) >= BidGet(bidtab, list[i].name, query, 0)}

\* C9: for a query whose remaining predicted demand is positive, the
\* optimistic allocate_query picks, among the advertisers with a positive plan
\* cell for the keyword and remaining_budget >= bid, the one of highest bid,
\* the first in the order of the list on ties; it then takes 1 from that plan
\* cell and from the keyword's remaining demand, adds the bid to the
\* advertiser's spent_budget and returns (advertiser, bid).  With no such
\* advertiser it returns (None, 0) and changes neither plan, demand nor ledger.
C9_OptimisticPicksHighestBid ==
    [][(/\ kind = "optimistic"
        /\ op'.name = "allocate_query"
        /\ op'.query \in DOMAIN remaining_queries
        /\ remaining_queries[op'.query] > 0) =>
          LET query == op'.query
              eligible == PlanEligible(advertisers, bids, offline_allocations, query)
          IN  /\ error' = "none"
              /\ IF eligible = {}
                 THEN /\ ret' = NoRet
                      /\ UNCHANGED <<offline_allocations, remaining_queries, advertisers>>
                 ELSE LET i == ret'.advertiser
                      IN  /\ i \in eligible
                          /\ ret'.bid = BidGet(bids, advertisers[i].name, query, 0)
                          /\ \A j \in eligible :
                                LET bid == BidGet(bids, advertisers[j].name, query, 0)
                                IN  bid < ret'.bid \/ (bid = ret'.bid /\ i <= j)
                          /\ offline_allocations' =
                                 [offline_allocations EXCEPT ![i][query] = @ - 1]
                          /\ remaining_queries' = [remaining_queries EXCEPT ![query] = @ - 1]
                          /\ advertisers' = [advertisers EXCEPT
                                                ![i].spent_budget = @ + ret'.bid]]_vars

\* The optimistic allocator served a query from the second of two advertisers
\* while the plan still held a query of the same keyword for the first.
C9_Witness ==
    /\ kind = "optimistic"
    /\ op.name = "allocate_query"
    /\ op.query \in Keywords(n_keywords)
    /\ Len(advertisers) = 2
    /\ ret.advertiser = 2
    /\ ret.bid > 0
    /\ offline_allocations[1][op.query] > 0

\* C10: when the remaining predicted demand of the queried keyword is 0 or
\* less (a keyword the prediction does not hold counts as 0), the optimistic
\* allocate_query returns (None, 0) and leaves the plan, the remaining demand
\* and every advertiser's spent_budget as they were.
C10_ExhaustedDemandDismissed ==
    [][(/\ kind = "optimistic"
        /\ op'.name = "allocate_query"
        /\ \/ op'.query \notin DOMAIN remaining_queries
           \/ remaining_queries[op'.query] <= 0) =>
          /\ error' = "none"
          /\ ret' = NoRet
          /\ UNCHANGED <<offline_allocations, remaining_queries, advertisers>>]_vars

\* A query of a keyword whose predicted demand was used up was dismissed,
\* although an advertiser that was debited before could still pay its bid.
C10_Witness ==
    /\ kind = "optimistic"
    /\ op.name = "allocate_query"
    /\ op.query \in DOMAIN remaining_queries
    /\ remaining_queries[op.query] = 0
    /\ ret = NoRet
    /\ \E i \in 1..Len(advertisers) :
          /\ advertisers[i].spent_budget > 0
          /\ BidGet(bids, advertisers[i].name, op.query, 0) > 0
          /\ remaining_budget(advertisers[i]) >= BidGet(bids, advertisers[i].name, op.query, 0)

\* C7: a plan that round_solution_to_integers makes of a non-negative solution,
\* on a working copy that has spent nothing, gives no keyword more than its
\* predicted demand and no advertiser more than its initial budget can pay (a
\* keyword missing from its bids costs nothing), in natural numbers.
C7_PlanFeasible ==
    (op.name = "round_solution_to_integers" /\ error = "none") =>
        LET n == Len(advertisers)
            nk == n_keywords
            plan == offline_allocations
        IN  /\ \A i \in 1..n : \A k \in Keywords(nk) : plan[i][k] \in Nat
            /\ \A k \in Keywords(nk) :
                   SumTo([i \in 1..n |-> plan[i][k]], n) <= remaining_queries[k]
            /\ \A i \in 1..n :
                   SumTo([k \in Keywords(nk) |->
                             plan[i][k] * BidGet(bids, advertisers[i].name, k, 0)], nk)
                     <= advertisers[i].initial_budget

\* A plan in which two advertisers share the whole predicted demand of a
\* keyword and one advertiser spends its whole budget on two keywords.
C7_Witness ==
    /\ op.name = "round_solution_to_integers"
    /\ error = "none"
    /\ Len(advertisers) = 2
    /\ \E k \in Keywords(n_keywords) :
          /\ offline_allocations[1][k] > 0
          /\ offline_allocations[2][k] > 0
          /\ offline_allocations[1][k] + offline_allocations[2][k] = remaining_queries[k]
    /\ \E i \in 1..2 :
          /\ offline_allocations[i][1] > 0
          /\ offline_allocations[i][2] > 0
          /\ offline_allocations[i][1] * BidGet(bids, advertisers[i].name, 1, 0)
               + offline_allocations[i][2] * BidGet(bids, advertisers[i].name, 2, 0)
             = advertisers[i].initial_budget
          /\ BidGet(bids, advertisers[i].name, 1, 0) > 0
          /\ BidGet(bids, advertisers[i].name, 2, 0) > 0

\* The authoritative advertiser a candidate of a sub-allocator is mapped to,
\* with the candidate's bid; and its score on the ledger `list`.
Mapped(candidate) ==
    IF candidate.advertiser = 0 THEN NoRet
    ELSE [advertiser |-> FirstByName(advertisers, Shadow[candidate.advertiser].name),
          bid |-> candidate.bid]

CandidateScore(list, a, candidate) ==
    phi_alpha(budget_fraction(list[candidate.advertiser]), a) * candidate.bid

\* C11: a balanced allocate_query with at least one candidate commits the
\* optimistic candidate if and only if alpha * score_o >= score_p, each score
\* being phi_alpha(budget_fraction) * bid of the mapped authoritative
\* advertiser before the commit, and minus infinity for a missing candidate;
\* so a lone candidate is the one committed.  The branch committed is the one
\* whose counter grows and whose candidate is returned.
C11_BalancedDecisionRule ==
    [][(/\ kind = "balanced"
        /\ op'.name = "allocate_query"
        /\ (op'.o_copy.advertiser # 0 \/ op'.p_copy.advertiser # 0)) =>
          LET o == Mapped(op'.o_copy)
              p == Mapped(op'.p_copy)
              optimistic ==
                  IF o.advertiser = 0 THEN FALSE
                  ELSE IF p.advertiser = 0 THEN TRUE
                  ELSE alpha * CandidateScore(advertisers, alpha, o)
                         >= CandidateScore(advertisers, alpha, p)
          IN  /\ allocations' = IF optimistic
                                THEN <<allocations[1] + 1, allocations[2]>>
                                ELSE <<allocations[1], allocations[2] + 1>>
              /\ error' = "none" => ret' = IF optimistic THEN o ELSE p]_vars

\* With alpha 2 the optimistic candidate was committed although the score of
\* the pessimistic candidate, another advertiser, was higher than its own.
C11_Witness ==
    /\ kind = "balanced"
    /\ op.name = "allocate_query"
    /\ error = "none"
    /\ alpha = 2
    /\ op.o_copy.advertiser # 0
    /\ op.p_copy.advertiser # 0
    /\ LET o == Mapped(op.o_copy)
           p == Mapped(op.p_copy)
           before == [advertisers EXCEPT ![o.advertiser].spent_budget = @ - o.bid]
       IN  /\ o.advertiser # p.advertiser
           /\ ret = o
           /\ CandidateScore(before, alpha, o) < CandidateScore(before, alpha, p)

\* The candidate a balanced allocate_query committed, as its counters tell.
Committed ==
    IF allocations'[1] # allocations[1] THEN Mapped(op'.o_copy) ELSE Mapped(op'.p_copy)

\* C12: deduct_budget(amount) on an advertiser raises and leaves spent_budget
\* unchanged if amount > remaining_budget; otherwise spent_budget grows by
\* exactly amount, initial_budget stays, and no other advertiser changes.
\* Checked on the call the balanced allocator makes on the authoritative list,
\* the one call whose amount is not compared with the remaining budget first.
C12_DeductContract ==
    [][(/\ kind = "balanced"
        /\ op'.name = "allocate_query"
        /\ allocations' # allocations) =>
          LET amount == Committed.bid
              i == Committed.advertiser
          IN  IF amount > remaining_budget(advertisers[i])
              THEN /\ error' = "InsufficientBudget"
                   /\ advertisers' = advertisers
              ELSE /\ error' = "none"
                   /\ advertisers' =
                        [advertisers EXCEPT ![i].spent_budget = @ + amount]]_vars

\* A deduct_budget call raised on a list on which an earlier call had spent.
C12_Witness ==
    /\ kind = "balanced"
    /\ op.name = "allocate_query"
    /\ error = "InsufficientBudget"
    /\ \E i \in 1..Len(advertisers) : advertisers[i].spent_budget > 0

\* C13: a snapshot taken from the registry shares no record with the
\* authoritative list: deduct_budget on a record of the snapshot leaves every
\* authoritative spent_budget as it was, and deduct_budget on an authoritative
\* record leaves the snapshot the caller took before as it was.
C13_SnapshotIndependent ==
    [][/\ op'.name = "copy_list.deduct_budget" => advertisers' = advertisers
       /\ op'.name = "original_list.deduct_budget" =>
             Deref(adv_ref, advertisers', copies') = Shadow]_vars

\* The same advertiser was debited 2 in the snapshot and 1 in the
\* authoritative list.
C13_Witness ==
    /\ kind = "snapshot"
    /\ error = "none"
    /\ \E i \in 1..Len(advertisers) :
          /\ Shadow[i].spent_budget = 2
          /\ advertisers[i].spent_budget = 1

\* C14: get_advertiser_list_copy returns the cached snapshot, the same list
\* with the same records, until reset_advertiser_list_copy is called; neither a
\* deduction on the authoritative list nor reset_budgets changes the cached
\* snapshot; and reset_advertiser_list_copy caches a snapshot whose records
\* have the authoritative spent budgets of that moment.
C14_CachedUntilReset ==
    [][/\ (op'.name = "get_advertiser_list_copy" /\ advertiser_list_copy # 0) =>
             /\ adv_ref' = advertiser_list_copy
             /\ advertiser_list_copy' = advertiser_list_copy
             /\ copies'[adv_ref'] = copies[advertiser_list_copy]
       /\ (/\ op'.name \in {"original_list.deduct_budget", "reset_budgets"}
           /\ advertiser_list_copy # 0) =>
             /\ advertiser_list_copy' = advertiser_list_copy
             /\ copies'[advertiser_list_copy'] = copies[advertiser_list_copy]
       /\ op'.name = "reset_advertiser_list_copy" =>
             /\ advertiser_list_copy' # 0
             /\ copies'[advertiser_list_copy'] = advertisers]_vars

\* get_advertiser_list_copy returned the cached snapshot, in which an
\* advertiser has spent nothing, after that advertiser had spent in the
\* authoritative list.
C14_Witness ==
    /\ kind = "snapshot"
    /\ op.name = "get_advertiser_list_copy"
    /\ \E i \in 1..Len(advertisers) :
          /\ advertisers[i].spent_budget > 0
          /\ copies[adv_ref][i].spent_budget = 0

\* C15: the standalone pessimistic allocator, run over a query stream, then
\* reset_budgets, then run over the same stream, returns the same
\* (advertiser, bid) at every position of the stream, and the two passes
\* have the same total revenue.
C15_ReplayAfterReset ==
    Len(runs) = 2 =>
        /\ \A k \in 1..Len(runs[2]) : runs[2][k] = runs[1][k]
        /\ Len(runs[2]) = Len(runs[1]) =>
              pessimistic_revenue(runs[2]) = pessimistic_revenue(runs[1])

\* Both passes are over: an advertiser was served in the first pass, a later
\* query of that pass found no advertiser, and the second pass is complete.
C15_Witness ==
    /\ Len(runs) = 2
    /\ Len(runs[2]) = Len(runs[1])
    /\ \E j, k \in 1..Len(runs[1]) :
          /\ j < k
          /\ runs[1][j].query = runs[1][k].query
          /\ runs[1][j].advertiser # 0
          /\ runs[1][k].advertiser = 0

\* C16: whenever allocate_query of the pessimistic, the optimistic or the
\* balanced allocator returns (advertiser, bid) with an advertiser, bid is the
\* entry of the bid table for that advertiser and the queried keyword (0 when
\* there is none), and the spent_budget of that advertiser grew by bid.
C16_ReturnedBidIsTableBid ==
    [][(op'.name = "allocate_query" /\ ret'.advertiser # 0) =>
          LET i == ret'.advertiser
          IN  /\ ret'.bid = BidGet(bids, advertisers[i].name, op'.query, 0)
              /\ advertisers'[i].spent_budget = advertisers[i].spent_budget + ret'.bid]_vars

\* The balanced allocator returned the second of two advertisers, whose bid
\* is not the bid of the first.
C16_Witness ==
    /\ kind = "balanced"
    /\ op.name = "allocate_query"
    /\ ret.advertiser = 2
    /\ ret.bid > 0
    /\ ret.bid # BidGet(bids, advertisers[1].name, op.query, 0)

\* C17: for a keyword that no advertiser bids on and that predicted demand
\* does not name, allocate_query of the pessimistic, the optimistic and the
\* balanced allocator returns (None, 0) without raising and leaves the
\* authoritative list, the plan, the remaining demand and the counters of the
\* balanced allocator unchanged.
C17_UnknownKeywordDismissed ==
    [][(op'.name = "allocate_query" /\ op'.query = UnknownKeyword(n_keywords)) =>
          /\ ret' = NoRet
          /\ error' = "none"
          /\ UNCHANGED <<advertisers, offline_allocations, remaining_queries, allocations>>]_vars

\* A balanced allocator that had served a query, and still holds an advertiser
\* able to pay its bid on the known keyword, was asked for the unknown one.
C17_Witness ==
    /\ kind = "balanced"
    /\ op.name = "allocate_query"
    /\ op.query = UnknownKeyword(n_keywords)
    /\ allocations # <<0, 0>>
    /\ \E i \in 1..Len(advertisers) :
          LET bid == BidGet(bids, advertisers[i].name, 1, 0)
          IN  bid > 0 /\ remaining_budget(advertisers[i]) >= bid

\* C18: an advertiser with initial_budget 0 has budget_fraction 1.0, and the
\* pessimistic allocate_query never returns it when another advertiser is
\* eligible with a positive score: it returns an advertiser with a budget.
C18_ZeroBudgetNeverChosen ==
    [][/\ \A i \in 1..Len(advertisers) :
             advertisers[i].initial_budget = 0 =>
                 budget_fraction(advertisers[i])[1] = budget_fraction(advertisers[i])[2]
       /\ (/\ kind = "pessimistic"
           /\ op'.name = "allocate_query"
           /\ \E j \in Eligible(advertisers, bids, op'.query) :
                  Score(advertisers, bids, alpha, op'.query, j) > 0) =>
             /\ ret'.advertiser # 0
             /\ advertisers[ret'.advertiser].initial_budget > 0]_vars

\* The first advertiser has no budget and the higher bid on the keyword; the
\* pessimistic allocator returned the second one.
C18_Witness ==
    /\ kind = "pessimistic"
    /\ op.name = "allocate_query"
    /\ Len(advertisers) = 2
    /\ advertisers[1].initial_budget = 0
    /\ BidGet(bids, advertisers[1].name, op.query, 0) > ret.bid
    /\ ret.advertiser = 2

\* C19: when linprog reports failure, solve_allocation raises, no plan is
\* stored, the construction of the optimistic or the balanced allocator ends
\* with that error and no allocator, and the authoritative list is as
\* reset_budgets left it before the construction.
C19_SolverFailureAborts ==
    (op.name \in {"OptimisticAlgorithm", "BalancedAlgorithm"} /\ ~op.success) =>
        /\ error = "SolverFailure"
        /\ kind = "none"
        /\ offline_allocations = <<>>
        /\ \A i \in 1..Len(advertisers) : advertisers[i].spent_budget = 0

\* The construction of a balanced allocator ended with the error of the
\* solver, on a registry with an advertiser that could have been served.
C19_Witness ==
    /\ op.name = "BalancedAlgorithm"
    /\ ~op.success
    /\ error = "SolverFailure"
    /\ \E i \in 1..Len(advertisers) :
          LET bid == BidGet(bids, advertisers[i].name, 1, 0)
          IN  bid > 0 /\ advertisers[i].initial_budget >= bid

\* C20: the authoritative advertiser a balanced allocate_query debits stands
\* at the position, in the registry, of the record of the shadow list that
\* the committed candidate is; for every registry the driver can build,
\* generate_inputs called again included.
C20_DebitsSamePosition ==
    [][(/\ kind = "balanced"
        /\ op'.name = "allocate_query"
        /\ allocations' # allocations) =>
          Committed.advertiser = IF allocations'[1] # allocations[1]
                                 THEN op'.o_copy.advertiser
                                 ELSE op'.p_copy.advertiser]_vars

C22_PlanOnlyDecremented ==
    [][(kind = "optimistic" /\ op'.name = "allocate_query") =>
          /\ \A i \in 1..Len(advertisers) : \A k \in Keywords(n_keywords) :
                 offline_allocations'[i][k] >= 0
          /\ \A k \in Keywords(n_keywords) : remaining_queries'[k] >= 0
          /\ IF ret'.advertiser # 0
             THEN /\ offline_allocations' =
                       [offline_allocations EXCEPT ![ret'.advertiser][op'.query] = @ - 1]
                  /\ remaining_queries' =
                       [remaining_queries EXCEPT ![op'.query] = @ - 1]
             ELSE UNCHANGED <<offline_allocations, remaining_queries>>]_vars

\* The plan of two advertisers for the keyword is used up, the predicted
\* demand of the keyword with it, and the last query found nobody.
C22_Witness ==
    /\ kind = "optimistic"
    /\ op.name = "allocate_query"
    /\ op.query \in Keywords(n_keywords)
    /\ Len(advertisers) = 2
    /\ \A i \in 1..2 : offline_allocations[i][op.query] = 0
    /\ \A i \in 1..2 : advertisers[i].spent_budget > 0
    /\ remaining_queries[op.query] = 0
    /\ ret = NoRet

\* C23: a balanced allocate_query that returns an advertiser increments
\* exactly one counter, the one of the branch whose candidate it returns, and
\* a call that returns no advertiser increments neither; so the two counters
\* add up to the number of calls that returned an advertiser.
C23_CountersMatchReturns ==
    [][(kind = "balanced" /\ op'.name = "allocate_query") =>
          IF ret'.advertiser # 0
          THEN \/ /\ allocations' = <<allocations[1] + 1, allocations[2]>>
                  /\ ret' = Mapped(op'.o_copy)
               \/ /\ allocations' = <<allocations[1], allocations[2] + 1>>
                  /\ ret' = Mapped(op'.p_copy)
          ELSE allocations' = allocations]_vars

\* C24: while a balanced allocator, built after reset_budgets and
\* reset_advertiser_list_copy, serves queries, every record of the list its
\* sub-allocators operate on has spent at least what the authoritative
\* advertiser of its name (the one the allocator maps it to) has spent.
C24_ShadowSpentAtLeastLedger ==
    (kind = "balanced" /\ only_queries /\ error = "none") =>
        \A i \in 1..Len(Shadow) :
            Shadow[i].spent_budget >=
                advertisers[FirstByName(advertisers, Shadow[i].name)].spent_budget

\* C25: in a balanced allocate_query, whenever the optimistic sub-allocator
\* proposes a candidate, the plan cell of that candidate and the keyword and
\* the remaining demand of the keyword each lose 1, whichever branch is
\* committed; when it proposes none, both stay.
C25_PlanConsumedEitherBranch ==
    [][(kind = "balanced" /\ op'.name = "allocate_query") =>
          IF op'.o_copy.advertiser # 0
          THEN /\ offline_allocations' =
                    [offline_allocations EXCEPT ![op'.o_copy.advertiser][op'.query] = @ - 1]
               /\ remaining_queries' = [remaining_queries EXCEPT ![op'.query] = @ - 1]
          ELSE UNCHANGED <<offline_allocations, remaining_queries>>]_vars

\* Both sub-allocators proposed a candidate, for two different advertisers,
\* and the pessimistic one was returned.
C25_Witness ==
    /\ kind = "balanced"
    /\ op.name = "allocate_query"
    /\ error = "none"
    /\ op.o_copy.advertiser # 0
    /\ op.p_copy.advertiser # 0
    /\ Mapped(op.o_copy).advertiser # Mapped(op.p_copy).advertiser
    /\ ret = Mapped(op.p_copy)

\* The revenue the driver has accumulated over the queries of the phase
\* (optimistic_revenue and balanced_revenue are summed as pessimistic_revenue
\* is), and what the authoritative advertisers have spent together.
Revenue == pessimistic_revenue(runs[1])

TotalSpent ==
    SumTo([i \in 1..Len(advertisers) |-> advertisers[i].spent_budget], Len(advertisers))

====
